---------------------------- MODULE Spec2Model ----------------------------
(***************************************************************************)
(* Model of the PointPerfect MQTT client (src/src/point_perfect_client.py): *)
(* the NMEA sentence framer (NmeaParser), the geographic node selector and *)
(* the subscription / session controller (PointPerfectClient).             *)
(*                                                                         *)
(* Text (topics, node names, sentences) is a sequence of one-character     *)
(* strings, so that startswith / endswith / slicing / concatenation /      *)
(* formatting are computed, not assumed.  Positions are integers in        *)
(* hundredths of a degree.                                                 *)
(***************************************************************************)
EXTENDS Integers, Sequences, FiniteSets, TLC

(***************************************************************************)
(* Bounds of the model.                                                    *)
(***************************************************************************)
\* messages the broker may have in flight towards the client
MaxInflight == 1
\* the finite value of --epochs explored besides the default (infinite); also
\* the cap on epoch_count when --epochs is infinite (the counter is unbounded)
MaxEpochs == 1

(***************************************************************************)
(* Text helpers.                                                           *)
(***************************************************************************)
None == <<"None">>

startswith(s, p) == Len(s) >= Len(p) /\ SubSeq(s, 1, Len(p)) = p

endswith(s, p) == Len(s) >= Len(p) /\ SubSeq(s, Len(s) - Len(p) + 1, Len(s)) = p

\* Python slice s[a:b] with 0 <= a <= b (clipped to the length of s)
Slice(s, a, b) ==
    LET hi == IF b > Len(s) THEN Len(s) ELSE b
    IN  IF a >= hi THEN <<>> ELSE SubSeq(s, a + 1, hi)

Digits == <<"0", "1", "2", "3", "4", "5", "6", "7", "8", "9">>

DigitVal(c) == (CHOOSE i \in 1..10 : Digits[i] = c) - 1

IsDigit(c) == \E i \in 1..10 : Digits[i] = c

Abs(x) == IF x < 0 THEN -x ELSE x

RECURSIVE DecDigits(_)
\* decimal digits of n >= 0, most significant first
DecDigits(n) == IF n < 10 THEN <<Digits[n + 1]>>
                ELSE DecDigits(n \div 10) \o <<Digits[(n % 10) + 1]>>

RECURSIVE ZeroPad(_, _)
ZeroPad(s, w) == IF Len(s) >= w THEN s ELSE ZeroPad(<<"0">> \o s, w)

\* f'{n:0wd}' for n >= 0
FormatD(n, w) == ZeroPad(DecDigits(n), w)

RECURSIVE DigitsVal(_, _)
DigitsVal(s, acc) == IF s = <<>> THEN acc
                     ELSE DigitsVal(Tail(s), acc * 10 + DigitVal(Head(s)))

\* int(s) for a decimal string with an optional leading '-'
ParseInt(s) == IF Head(s) = "-" THEN -DigitsVal(Tail(s), 0) ELSE DigitsVal(s, 0)

(***************************************************************************)
(* Topic names.                                                            *)
(***************************************************************************)
T_pp_ubx == <<"/", "p", "p", "/", "u", "b", "x", "/">>

T_mga == T_pp_ubx \o <<"m", "g", "a">>

T_mga_updates == T_mga \o <<"/", "u", "p", "d", "a", "t", "e", "s">>

T_updates_suffix == <<"/", "u", "p", "d", "a", "t", "e", "s">>

T_pp_ip == <<"p", "p", "/", "i", "p">>

T_dict_suffix == <<"/", "d", "i", "c", "t">>

Plan(lband) == IF lband THEN <<"L", "b">> ELSE <<"i", "p">>

\* f'/pp/{self.plan}/'
PlanPrefix(p) == <<"/", "p", "p", "/">> \o p \o <<"/">>

\* f'/pp/ubx/0236/{self.plan}'
KeyTopic(p) == T_pp_ubx \o <<"0", "2", "3", "6", "/">> \o p


(***************************************************************************)
(* Geography.  A position is a pair of integers, hundredths of a degree.   *)
(***************************************************************************)
\* the positions a fix report may carry
Positions == { <<4812, 1152>>, <<4900, 1152>>, <<5050, 1152>> }

\* math.cos(math.radians(lat)) * 10^4, rounded, for the latitudes of the model
Cos10000(lat) ==
    CASE lat = 0    -> 10000
      [] lat = 20   -> 10000
      [] lat = -20  -> 10000
      [] lat = 50   -> 10000
      [] lat = -2655 -> 8945
      [] lat = 4800 -> 6691
      [] lat = 4812 -> 6676
      [] lat = 4900 -> 6561
      [] lat = 5050 -> 6361

\* distance * 360 / EARTH_CIRCUMFERENCE in units of 10^-5 degree, for the
\* default distance: 50000 * 360 / (6371000 * 2 * pi) = 0.44966 degrees
dlat_threshold == 44966

\* self.dlat_threshold * cos(radians(lat)), units of 10^-5 degree
DlonThreshold(lat) == (dlat_threshold * Cos10000(lat)) \div 10000

\* abs(a - b) > threshold, a and b in hundredths, threshold in 10^-5 degree
MovedBeyond(a, b, threshold) == Abs(a - b) * 1000 > threshold

\* [10.0, 5.0, 2.5][self.tile_level] in hundredths of a degree
Delta(level) == <<1000, 500, 250>>[level + 1]

\* get_tile_topic that names the tile by its lower left corner
get_tile_topic_corner(tile_level, lat, lon) ==
    LET delta == Delta(tile_level)
        n_s   == IF lat < 0 THEN "S" ELSE "N"
        e_w   == IF lon < 0 THEN "W" ELSE "E"
        llat  == (lat \div delta) * delta
        llon  == (lon \div delta) * delta
        slat  == Abs(llat)
        slon  == Abs(llon)
    IN  T_pp_ip \o <<"/", "L">> \o DecDigits(tile_level) \o <<n_s>>
          \o FormatD(slat, 4) \o <<e_w>> \o FormatD(slon, 5) \o T_dict_suffix

get_tile_topic(tile_level, lat, lon) ==
    LET delta == Delta(tile_level)
        n_s   == IF lat < 0 THEN "S" ELSE "N"
        e_w   == IF lon < 0 THEN "W" ELSE "E"
        llat  == (lat \div delta) * delta
        llon  == (lon \div delta) * delta
        clat  == llat + (delta \div 2)
        clon  == llon + (delta \div 2)
        slat  == Abs(clat)
        slon  == Abs(clon)
    IN  T_pp_ip \o <<"/", "L">> \o DecDigits(tile_level) \o <<n_s>>
          \o FormatD(slat, 4) \o <<e_w>> \o FormatD(slon, 5) \o T_dict_suffix

\* str.maketrans('NSEW', '0-0-') applied to one character
TranslateChar(c) ==
    CASE c = "N" -> "0"
      [] c = "S" -> "-"
      [] c = "E" -> "0"
      [] c = "W" -> "-"
      [] OTHER   -> c

NSEW_TO_SIGN(node) == [i \in 1..Len(node) |-> TranslateChar(node[i])]

node_lat(node) == ParseInt(Slice(NSEW_TO_SIGN(node), 0, 5))

node_lon(node) == ParseInt(Slice(NSEW_TO_SIGN(node), 5, 11))

\* (node_lat-rounded_lat)**2 + ((node_lon-rounded_lon)*factor_lon)**2
dist_scaled(node, lat, lon) ==
    LET dlat == node_lat(node) - lat
        dlon == (Abs(node_lon(node) - lon) * Cos10000(lat)) \div 10000
    IN  dlat * dlat + dlon * dlon

RECURSIVE NearestFrom_last_wins(_, _, _, _, _)
\* the loop of select_node with <= for <: the last of the nearest nodes wins
NearestFrom_last_wins(nodes, lat, lon, best, bestDist) ==
    IF nodes = <<>> THEN best
    ELSE LET d == dist_scaled(Head(nodes), lat, lon)
         IN  IF bestDist < 0 \/ d <= bestDist
             THEN NearestFrom_last_wins(Tail(nodes), lat, lon, Head(nodes), d)
             ELSE NearestFrom_last_wins(Tail(nodes), lat, lon, best, bestDist)

RECURSIVE NearestFrom(_, _, _, _, _)
\* the loop of select_node: keep the node with the strictly smallest score
NearestFrom(nodes, lat, lon, best, bestDist) ==
    IF nodes = <<>> THEN best
    ELSE LET d == dist_scaled(Head(nodes), lat, lon)
         IN  IF bestDist < 0 \/ d < bestDist
             THEN NearestFrom(Tail(nodes), lat, lon, Head(nodes), d)
             ELSE NearestFrom(Tail(nodes), lat, lon, best, bestDist)

\* min_dist_scaled starts at infinity (here: -1, smaller than no score)
NearestNode(nodes, lat, lon) == NearestFrom(nodes, lat, lon, <<>>, -1)

N_au == <<"S", "2", "6", "5", "5", "E", "1", "3", "4", "7", "0">>
N_eu == <<"N", "5", "2", "4", "5", "E", "0", "1", "1", "8", "5">>
N_jpE == <<"N", "3", "8", "9", "5", "E", "1", "3", "9", "6", "0">>
N_jpW == <<"N", "3", "3", "1", "0", "E", "1", "3", "2", "2", "0">>
N_kr == <<"N", "3", "6", "3", "0", "E", "1", "2", "8", "2", "0">>
N_us == <<"N", "3", "9", "2", "0", "W", "0", "9", "6", "6", "0">>

\* REGION_MAPPING.keys(), in insertion order
REGION_KEYS == <<N_au, N_eu, N_jpE, N_jpW, N_kr, N_us>>

REGION_MAPPING(node) ==
    CASE node = N_au  -> <<"a", "u">>
      [] node = N_eu  -> <<"e", "u">>
      [] node = N_jpE -> <<"j", "p">>
      [] node = N_jpW -> <<"j", "p">>
      [] node = N_kr  -> <<"k", "r">>
      [] node = N_us  -> <<"u", "s">>

(***************************************************************************)
(* The controller and the transport as one record s.  Fields of the        *)
(* controller are those of PointPerfectClient; link, subs and msgs are the *)
(* MQTT session: link is "connecting" between connect() and the connect    *)
(* callback, "up" while the session is established, "closing" between      *)
(* disconnect() and the disconnect callback, "down" otherwise.  subs is    *)
(* the set of topics the broker holds for the session (a disconnect drops  *)
(* them all), msgs the messages in flight to the client.  calls is the     *)
(* list of calls the running handler has made on the transport and on the  *)
(* receiver link.                                                          *)
(***************************************************************************)
Call(op, topic, qos, server) ==
    [op |-> op, topic |-> topic, qos |-> qos, server |-> server]

\* mqtt_client.subscribe((topic, qos))
Subscribe(s, topic, qos) ==
    [s EXCEPT !.calls = Append(@, Call("subscribe", topic, qos, "")),
              !.subs  = IF s.link \in {"connecting", "up"}
                        THEN @ \cup {topic} ELSE @]

\* mqtt_client.unsubscribe(topic)
Unsubscribe(s, topic) ==
    [s EXCEPT !.calls = Append(@, Call("unsubscribe", topic, 0, "")),
              !.subs  = IF s.link \in {"connecting", "up"}
                        THEN @ \ {topic} ELSE @]

\* mqtt_client.disconnect()
Disconnect(s) ==
    [s EXCEPT !.calls = Append(@, Call("disconnect", <<>>, 0, "")),
              !.link  = IF @ \in {"connecting", "up"} THEN "closing" ELSE @,
              !.subs  = {}]

\* mqtt_client.connect(server, port)
Connect(s, server) ==
    [s EXCEPT !.calls = Append(@, Call("connect", <<>>, 0, server)),
              !.link  = "connecting",
              !.subs  = {},
              !.msgs  = <<>>]

\* gnss.write(payload)
Write(s, payload) ==
    [s EXCEPT !.calls = Append(@, Call("write", <<>>, payload, ""))]

\* logging.debug('Nearest node: %s') / logging.warning('Region "%s" ...'):
\* select_node has chosen a node
Log(s, nearest_node) ==
    [s EXCEPT !.calls = Append(@, Call("select", nearest_node, 0, ""))]

NoDict == [kind |-> "none"]

\* the truth value of self.tile_dict: None and {} are false
DictTruthy(d) == d.kind = "dict"

RECURSIVE SubscribeAll(_, _)
\* mqtt_client.subscribe(self.mqtt_topics): one request per (topic, qos)
SubscribeAll(s, topics) ==
    IF topics = <<>> THEN s
    ELSE SubscribeAll(Subscribe(s, Head(topics)[1], Head(topics)[2]),
                      Tail(topics))

\* on_mqtt_connect that asks QoS 1 for the initialization topic in both phases
on_mqtt_connect_qos1(s, return_code) ==
    IF return_code = 0
    THEN LET s1 == [s EXCEPT !.connected = TRUE]
             s2 == SubscribeAll(s1, s1.mqtt_topics)
             s3 == IF s2.spartn_topic # <<>>
                   THEN Subscribe(s2, s2.spartn_topic, 0) ELSE s2
         IN  IF s3.assist_now_topic # <<>>
             THEN Subscribe(s3, s3.assist_now_topic, 1) ELSE s3
    ELSE s

on_mqtt_connect(s, return_code) ==
    IF return_code = 0
    THEN LET s1 == [s EXCEPT !.connected = TRUE]
             s2 == SubscribeAll(s1, s1.mqtt_topics)
             s3 == IF s2.spartn_topic # <<>>
                   THEN Subscribe(s2, s2.spartn_topic, 0) ELSE s2
             qos == IF endswith(s3.assist_now_topic, T_updates_suffix)
                    THEN 0 ELSE 1
         IN  IF s3.assist_now_topic # <<>>
             THEN Subscribe(s3, s3.assist_now_topic, qos) ELSE s3
    ELSE s

\* on_mqtt_disconnect that reconnects to the server it was connected to
on_mqtt_disconnect_same_server(s, return_code) ==
    LET s1 == [s EXCEPT !.connected = FALSE]
    IN  IF s1.new_server # ""
        THEN Connect([s1 EXCEPT !.new_server = ""], s1.mqtt_server)
        ELSE s1

on_mqtt_disconnect(s, return_code) ==
    LET s1 == [s EXCEPT !.connected = FALSE]
    IN  IF s1.new_server # ""
        THEN Connect([s1 EXCEPT !.mqtt_server = s1.new_server,
                                !.new_server = ""],
                     s1.new_server)
        ELSE s1

\* select_node without the unsubscribe of the old correction topic
select_node_keeps_old(s) ==
    IF ~DictTruthy(s.tile_dict) THEN s
    ELSE LET nearest == NearestNode(s.tile_dict.nodes, s.lat, s.lon)
             nearest_node == IF s.localized THEN nearest
                             ELSE REGION_MAPPING(nearest)
             topic == s.tile_dict.nodeprefix \o nearest_node
             s0 == Log(s, nearest_node)
         IN  IF s.mqtt_server # s.tile_dict.endpoint
             THEN Disconnect([s0 EXCEPT !.new_server = s.tile_dict.endpoint,
                                        !.spartn_topic = topic])
             ELSE Subscribe([s0 EXCEPT !.spartn_topic = topic], topic, 0)

\* select_node that resubscribes in place whatever the endpoint is
select_node_never_migrates(s) ==
    IF ~DictTruthy(s.tile_dict) THEN s
    ELSE LET nearest == NearestNode(s.tile_dict.nodes, s.lat, s.lon)
             nearest_node == IF s.localized THEN nearest
                             ELSE REGION_MAPPING(nearest)
             topic == s.tile_dict.nodeprefix \o nearest_node
             s0 == Log(s, nearest_node)
             s1 == IF s0.spartn_topic # <<>>
                   THEN Unsubscribe(s0, s0.spartn_topic) ELSE s0
         IN  Subscribe([s1 EXCEPT !.spartn_topic = topic], topic, 0)

\* select_node that, without a stored dictionary, selects among the regions
select_node_without_dictionary(s) ==
    LET d == IF DictTruthy(s.tile_dict) THEN s.tile_dict
             ELSE [kind |-> "dict", nodes |-> REGION_KEYS,
                   nodeprefix |-> PlanPrefix(s.plan), endpoint |-> s.mqtt_server]
        nearest == NearestNode(d.nodes, s.lat, s.lon)
        nearest_node == IF s.localized /\ DictTruthy(s.tile_dict) THEN nearest
                        ELSE REGION_MAPPING(nearest)
        topic == d.nodeprefix \o nearest_node
        s0 == Log(s, nearest_node)
    IN  IF s.mqtt_server # d.endpoint
        THEN Disconnect([s0 EXCEPT !.new_server = d.endpoint,
                                   !.spartn_topic = topic])
        ELSE LET s1 == IF s0.spartn_topic # <<>>
                       THEN Unsubscribe(s0, s0.spartn_topic) ELSE s0
             IN  Subscribe([s1 EXCEPT !.spartn_topic = topic], topic, 0)

select_node(s) ==
    IF ~DictTruthy(s.tile_dict) THEN s
    ELSE LET nearest == NearestNode(s.tile_dict.nodes, s.lat, s.lon)
             nearest_node == IF s.localized THEN nearest
                             ELSE REGION_MAPPING(nearest)
             topic == s.tile_dict.nodeprefix \o nearest_node
             s0 == Log(s, nearest_node)
         IN  IF s.mqtt_server # s.tile_dict.endpoint
             THEN Disconnect([s0 EXCEPT !.new_server = s.tile_dict.endpoint,
                                        !.spartn_topic = topic])
             ELSE LET s1 == IF s0.spartn_topic # <<>>
                            THEN Unsubscribe(s0, s0.spartn_topic) ELSE s0
                  IN  Subscribe([s1 EXCEPT !.spartn_topic = topic], topic, 0)

\* self.epoch_count > self.epochs; epochs = -1 stands for float('inf')
EpochsExceeded(count, epochs) == epochs >= 0 /\ count > epochs

\* process_position that selects a region on every fix
process_position_every_fix(s, lat, lon) ==
    IF s.localized
    THEN LET s1 == [s EXCEPT !.epoch_count = @ + 1]
         IN  IF \/ MovedBeyond(lat, s1.lat, dlat_threshold)
                \/ MovedBeyond(lon, s1.lon, s1.dlon_threshold)
                \/ EpochsExceeded(s1.epoch_count, s1.epochs)
             THEN LET s2 == [s1 EXCEPT !.lat = lat, !.lon = lon,
                                       !.epoch_count = 0,
                                       !.dlon_threshold = DlonThreshold(lat)]
                      new_tile_topic == get_tile_topic(s2.tile_level, lat, lon)
                  IN  IF new_tile_topic # s2.tile_topic
                      THEN LET s3 == IF s2.tile_topic # <<>>
                                     THEN Unsubscribe(s2, s2.tile_topic)
                                     ELSE s2
                           IN  [Subscribe(s3, new_tile_topic, 1)
                                  EXCEPT !.tile_topic = new_tile_topic]
                      ELSE select_node(s2)
             ELSE s1
    ELSE IF TRUE
         THEN select_node([s EXCEPT !.lat = lat, !.lon = lon,
                             !.tile_dict =
                                 [kind       |-> "dict",
                                  nodes      |-> REGION_KEYS,
                                  nodeprefix |-> PlanPrefix(s.plan),
                                  endpoint   |-> s.mqtt_server]])
         ELSE s

\* process_position that recomputes as soon as the counter reaches the maximum
process_position_epochs_reached(s, lat, lon) ==
    IF s.localized
    THEN LET s1 == [s EXCEPT !.epoch_count = @ + 1]
         IN  IF \/ MovedBeyond(lat, s1.lat, dlat_threshold)
                \/ MovedBeyond(lon, s1.lon, s1.dlon_threshold)
                \/ (s1.epochs >= 0 /\ s1.epoch_count >= s1.epochs)
             THEN LET s2 == [s1 EXCEPT !.lat = lat, !.lon = lon,
                                       !.epoch_count = 0,
                                       !.dlon_threshold = DlonThreshold(lat)]
                      new_tile_topic == get_tile_topic(s2.tile_level, lat, lon)
                  IN  IF new_tile_topic # s2.tile_topic
                      THEN LET s3 == IF s2.tile_topic # <<>>
                                     THEN Unsubscribe(s2, s2.tile_topic)
                                     ELSE s2
                           IN  [Subscribe(s3, new_tile_topic, 1)
                                  EXCEPT !.tile_topic = new_tile_topic]
                      ELSE select_node(s2)
             ELSE s1
    ELSE IF s.spartn_topic = <<>>
         THEN select_node([s EXCEPT !.lat = lat, !.lon = lon,
                             !.tile_dict =
                                 [kind       |-> "dict",
                                  nodes      |-> REGION_KEYS,
                                  nodeprefix |-> PlanPrefix(s.plan),
                                  endpoint   |-> s.mqtt_server]])
         ELSE s

process_position(s, lat, lon) ==
    IF s.localized
    THEN LET s1 == [s EXCEPT !.epoch_count = @ + 1]
         IN  IF \/ MovedBeyond(lat, s1.lat, dlat_threshold)
                \/ MovedBeyond(lon, s1.lon, s1.dlon_threshold)
                \/ EpochsExceeded(s1.epoch_count, s1.epochs)
             THEN LET s2 == [s1 EXCEPT !.lat = lat, !.lon = lon,
                                       !.epoch_count = 0,
                                       !.dlon_threshold = DlonThreshold(lat)]
                      new_tile_topic == get_tile_topic(s2.tile_level, lat, lon)
                  IN  IF new_tile_topic # s2.tile_topic
                      THEN LET s3 == IF s2.tile_topic # <<>>
                                     THEN Unsubscribe(s2, s2.tile_topic)
                                     ELSE s2
                           IN  [Subscribe(s3, new_tile_topic, 1)
                                  EXCEPT !.tile_topic = new_tile_topic]
                      ELSE select_node(s2)
             ELSE s1
    ELSE IF s.spartn_topic = <<>>
         THEN select_node([s EXCEPT !.lat = lat, !.lon = lon,
                             !.tile_dict =
                                 [kind       |-> "dict",
                                  nodes      |-> REGION_KEYS,
                                  nodeprefix |-> PlanPrefix(s.plan),
                                  endpoint   |-> s.mqtt_server]])
         ELSE s

\* handle_nmea_gga that subscribes the initial topic on every fix without a
\* position, whatever topic is active
handle_nmea_gga_resubscribes(s, quality, lat, lon) ==
    IF quality \in {0, 6}
    THEN Subscribe([s EXCEPT !.assist_now_topic = T_mga], T_mga, 1)
    ELSE LET s1 == IF s.assist_now_topic # <<>> /\ ~s.assist_now
                   THEN [Unsubscribe(s, s.assist_now_topic)
                           EXCEPT !.assist_now_topic = <<>>]
                   ELSE s
         IN  process_position(s1, lat, lon)

\* handle_nmea_gga that takes only quality 0 as "no position"
handle_nmea_gga_only_nofix(s, quality, lat, lon) ==
    IF quality = 0
    THEN IF s.assist_now_topic = <<>>
         THEN Subscribe([s EXCEPT !.assist_now_topic = T_mga], T_mga, 1)
         ELSE s
    ELSE LET s1 == IF s.assist_now_topic # <<>> /\ ~s.assist_now
                   THEN [Unsubscribe(s, s.assist_now_topic)
                           EXCEPT !.assist_now_topic = <<>>]
                   ELSE s
         IN  process_position(s1, lat, lon)

\* the part of handle_nmea_gga after the sentence is decoded into a fix
handle_nmea_gga(s, quality, lat, lon) ==
    IF quality \in {0, 6}
    THEN IF s.assist_now_topic = <<>>
         THEN Subscribe([s EXCEPT !.assist_now_topic = T_mga], T_mga, 1)
         ELSE s
    ELSE LET s1 == IF s.assist_now_topic # <<>> /\ ~s.assist_now
                   THEN [Unsubscribe(s, s.assist_now_topic)
                           EXCEPT !.assist_now_topic = <<>>]
                   ELSE s
         IN  process_position(s1, lat, lon)

\* json.loads(data), then select_node; a payload that is not JSON raises
\* (assert False) before tile_dict is assigned, any JSON value is assigned
process_tile_data(s, data) ==
    IF data.kind = "notjson" THEN s
    ELSE select_node([s EXCEPT !.tile_dict = data])

\* on_mqtt_message that takes the topics of every plan for correction data
on_mqtt_message_any_plan(s, topic, payload) ==
    IF startswith(topic, <<"/", "p", "p", "/">>) /\ ~startswith(topic, T_pp_ubx)
    THEN Write(s, payload.id)
    ELSE IF startswith(topic, T_pp_ubx)
    THEN LET s1 == Write(s, payload.id)
         IN  IF topic = T_mga
             THEN LET s2 == Unsubscribe(s1, T_mga)
                  IN  Subscribe([s2 EXCEPT !.assist_now_topic = T_mga_updates],
                                T_mga_updates, 0)
             ELSE s1
    ELSE IF startswith(topic, T_pp_ip)
    THEN IF endswith(topic, T_dict_suffix)
         THEN process_tile_data(s, payload)
         ELSE Write(s, payload.id)
    ELSE s

on_mqtt_message(s, topic, payload) ==
    IF startswith(topic, PlanPrefix(s.plan))
    THEN Write(s, payload.id)
    ELSE IF startswith(topic, T_pp_ubx)
    THEN LET s1 == Write(s, payload.id)
         IN  IF topic = T_mga
             THEN LET s2 == Unsubscribe(s1, T_mga)
                  IN  Subscribe([s2 EXCEPT !.assist_now_topic = T_mga_updates],
                                T_mga_updates, 0)
             ELSE s1
    ELSE IF startswith(topic, T_pp_ip)
    THEN IF endswith(topic, T_dict_suffix)
         THEN process_tile_data(s, payload)
         ELSE Write(s, payload.id)
    ELSE s

(***************************************************************************)
(* NmeaParser.  Bytes are integers (their codes); the buffer is a sequence *)
(* of bytes, NoBuffer while self.buffer is None (a buffer always holds the *)
(* '$' that opened it).                                                    *)
(***************************************************************************)
\* ord(c) for the characters the model feeds
ord(c) ==
    CASE c = "$" -> 36 [] c = "*" -> 42 [] c = "," -> 44 [] c = "-" -> 45
      [] c = "." -> 46 [] c = "0" -> 48 [] c = "1" -> 49 [] c = "3" -> 51
      [] c = "4" -> 52 [] c = "7" -> 55 [] c = "8" -> 56 [] c = "9" -> 57
      [] c = "A" -> 65 [] c = "D" -> 68 [] c = "E" -> 69 [] c = "F" -> 70
      [] c = "G" -> 71 [] c = "M" -> 77 [] c = "N" -> 78 [] c = "P" -> 80
      [] c = "S" -> 83 [] c = "W" -> 87 [] c = "Z" -> 90

\* the bytes of a text
Bytes(text) == [i \in 1..Len(text) |-> ord(text[i])]

\* carriage return, the byte that ends a sentence
CR == 13

NoBuffer == <<>>

\* the bytes parse appends to an open buffer
Accepted(byte) ==
    \/ byte \in ord("A")..ord("Z")
    \/ byte \in ord("0")..ord("9")
    \/ byte \in {ord(","), ord("."), ord("-"), ord("*")}

RECURSIVE Xor(_, _)
\* a ^ b for a, b >= 0
Xor(a, b) ==
    IF a = 0 /\ b = 0 THEN 0
    ELSE ((a + b) % 2) + 2 * Xor(a \div 2, b \div 2)

RECURSIVE XorAll(_, _)
\* chksum after "for i in bytes: chksum ^= i", starting from acc
XorAll(bytes, acc) ==
    IF bytes = <<>> THEN acc ELSE XorAll(Tail(bytes), Xor(acc, Head(bytes)))

\* the value of a hexadecimal digit (upper case), -1 for any other byte
HexDigit(byte) ==
    IF byte \in ord("0")..ord("9") THEN byte - ord("0")
    ELSE IF byte \in ord("A")..ord("F") THEN byte - ord("A") + 10
    ELSE -1

\* int(pair, 16) for two accepted bytes, with ValueError turned into -1:
\* two hex digits, or a '-' sign and one hex digit
chksum_received(pair) ==
    IF HexDigit(pair[1]) >= 0 /\ HexDigit(pair[2]) >= 0
    THEN 16 * HexDigit(pair[1]) + HexDigit(pair[2])
    ELSE IF pair[1] = ord("-") /\ HexDigit(pair[2]) >= 0
    THEN -HexDigit(pair[2])
    ELSE -1

\* chksum of buffer[1:-3]
chksum(buffer) == XorAll(SubSeq(buffer, 2, Len(buffer) - 3), 0)

\* variant: every checksum is taken as matching
chksum_matches_unchecked(buffer) == TRUE

\* chksum == chksum_received
chksum_matches(buffer) ==
    chksum(buffer) = chksum_received(SubSeq(buffer, Len(buffer) - 1, Len(buffer)))

\* re.compile(b'^\\$G[A-Z]GGA,').match(buffer)
MatchGGA(buffer) ==
    /\ Len(buffer) >= 7
    /\ buffer[1] = ord("$")
    /\ buffer[2] = ord("G")
    /\ buffer[3] \in ord("A")..ord("Z")
    /\ SubSeq(buffer, 4, 7) = Bytes(<<"G", "G", "A", ",">>)

(***************************************************************************)
(* The fields of a GGA sentence, as handle_nmea_gga decodes them.  A       *)
(* number is decimal: the bytes the model feeds hold no 'INF', 'NAN' or    *)
(* exponent, the other texts float() accepts.                              *)
(***************************************************************************)
RECURSIVE split(_, _, _)
\* sentence.split(sep): cur is the field being read, bytes what is left
split(bytes, sep, cur) ==
    IF bytes = <<>> THEN <<cur>>
    ELSE IF Head(bytes) = sep THEN <<cur>> \o split(Tail(bytes), sep, <<>>)
    ELSE split(Tail(bytes), sep, Append(cur, Head(bytes)))

IsDigitByte(byte) == byte \in ord("0")..ord("9")

RECURSIVE DecimalValue(_, _)
\* the number the digits spell, after acc
DecimalValue(digits, acc) ==
    IF digits = <<>> THEN acc
    ELSE DecimalValue(Tail(digits), 10 * acc + Head(digits) - ord("0"))

\* the text without its sign
Unsigned(text) ==
    IF text # <<>> /\ Head(text) = ord("-") THEN Tail(text) ELSE text

\* int(text) succeeds: an optional '-' and one digit or more
IsInt(text) ==
    /\ Unsigned(text) # <<>>
    /\ \A i \in DOMAIN Unsigned(text) : IsDigitByte(Unsigned(text)[i])

\* int(text)
IntValue(text) ==
    IF Head(text) = ord("-") THEN -DecimalValue(Unsigned(text), 0)
    ELSE DecimalValue(text, 0)

\* float(text) succeeds: an optional '-', digits with at most one '.', one
\* digit or more
IsFloat(text) ==
    LET u == Unsigned(text)
    IN  /\ \E i \in DOMAIN u : IsDigitByte(u[i])
        /\ \A i \in DOMAIN u : IsDigitByte(u[i]) \/ u[i] = ord(".")
        /\ Cardinality({i \in DOMAIN u : u[i] = ord(".")}) <= 1

\* float(text) * 100, cut after the second decimal
FloatValue100(text) ==
    LET u     == Unsigned(text)
        dots  == {i \in DOMAIN u : u[i] = ord(".")}
        dot   == IF dots = {} THEN Len(u) + 1 ELSE CHOOSE i \in dots : TRUE
        whole == SubSeq(u, 1, dot - 1)
        frac  == SubSeq(u \o Bytes(<<"0", "0">>), dot + 1, dot + 2)
        v     == 100 * DecimalValue(whole, 0)
                 + DecimalValue(IF dots = {} THEN Bytes(<<"0", "0">>)
                                ELSE frac, 0)
    IN  IF Head(text) = ord("-") THEN -v ELSE v

\* int(f / 100) + (f % 100) / 60 in hundredths of a degree, rounded, for
\* f100 = f * 100 (ddmm.mm): int() cuts towards zero, % takes the sign of 100
Degrees100(f100) ==
    LET deg == IF f100 < 0 THEN -((-f100) \div 10000) ELSE f100 \div 10000
    IN  100 * deg + ((f100 % 10000) + 30) \div 60

\* what handle_nmea_gga makes of the sentence (lines 261 to 270): the
\* exception raised ("" for none), else quality, lat and lon
decode_gga(sentence) ==
    LET fields == split(sentence, ord(","), <<>>)
        none   == [raised |-> "", quality |-> 0, lat |-> 0, lon |-> 0]
    IN  IF Len(fields) < 7 THEN [none EXCEPT !.raised = "IndexError"]
        ELSE IF fields[7] # <<>> /\ ~IsInt(fields[7])
        THEN [none EXCEPT !.raised = "ValueError"]
        ELSE IF fields[3] # <<>> /\ ~IsFloat(fields[3])
        THEN [none EXCEPT !.raised = "ValueError"]
        ELSE IF fields[5] # <<>> /\ ~IsFloat(fields[5])
        THEN [none EXCEPT !.raised = "ValueError"]
        ELSE LET f_lat == IF fields[3] = <<>> THEN 0
                          ELSE FloatValue100(fields[3])
                 f_lon == IF fields[5] = <<>> THEN 0
                          ELSE FloatValue100(fields[5])
             IN  [raised  |-> "",
                  quality |-> IF fields[7] = <<>> THEN 0
                              ELSE IntValue(fields[7]),
                  lat     |-> IF fields[4] = Bytes(<<"S">>)
                              THEN -Degrees100(f_lat) ELSE Degrees100(f_lat),
                  lon     |-> IF fields[6] = Bytes(<<"W">>)
                              THEN -Degrees100(f_lon) ELSE Degrees100(f_lon)]

\* the handlers dictionary of PointPerfectClient: pattern -> callback
callbacks == <<"handle_nmea_gga">>

\* re.compile(b'^\\$GP').match(buffer): a pattern another user of NmeaParser
\* may register for every sentence of the GP talker
MatchGP(buffer) ==
    /\ Len(buffer) >= 3
    /\ SubSeq(buffer, 1, 3) = Bytes(<<"$", "G", "P">>)

\* regexp.match(self.buffer); a pattern is named by its callback
Match(regexp, buffer) ==
    \/ regexp = "handle_nmea_gga" /\ MatchGGA(buffer)
    \/ regexp = "handle_gp" /\ MatchGP(buffer)

\* the exception callback(data) raises, "" for none: handle_nmea_gga raises
\* what its decoding raises
Outcome(callback, buffer) ==
    IF callback = "handle_nmea_gga" THEN decode_gga(buffer).raised ELSE ""

RECURSIVE Invoked(_, _)
\* the callbacks the loop over self.callbacks invokes for buffer, in order;
\* a callback that raises ends the loop
Invoked(regexps, buffer) ==
    IF regexps = <<>> THEN <<>>
    ELSE IF ~Match(Head(regexps), buffer) THEN Invoked(Tail(regexps), buffer)
    ELSE IF Outcome(Head(regexps), buffer) # "" THEN <<Head(regexps)>>
    ELSE <<Head(regexps)>> \o Invoked(Tail(regexps), buffer)

\* the exception that left the loop over self.callbacks, "" for none
RaisedBy(invoked, buffer) ==
    IF invoked = <<>> THEN "" ELSE Outcome(invoked[Len(invoked)], buffer)

\* one turn of the loop of parse; p.buffer is self.buffer, p.callbacks the
\* patterns of self.callbacks in the order of their registration, p.frames
\* lists the sentences that reached the checksum test with the callbacks
\* invoked, p.raised is the exception a callback raised: it leaves parse
\* before self.buffer is reset
parse_byte(p, byte) ==
    IF byte = ord("$") THEN [p EXCEPT !.buffer = <<byte>>]
    ELSE IF p.buffer = NoBuffer THEN p
    ELSE IF Accepted(byte) THEN [p EXCEPT !.buffer = Append(@, byte)]
    ELSE IF byte = CR
    THEN IF Len(p.buffer) > 3 /\ p.buffer[Len(p.buffer) - 2] = ord("*")
         THEN LET invoked == IF chksum_matches(p.buffer)
                             THEN Invoked(p.callbacks, p.buffer)
                             ELSE <<>>
                  raised  == RaisedBy(invoked, p.buffer)
              IN  [p EXCEPT
                     !.buffer = IF raised = "" THEN NoBuffer ELSE @,
                     !.raised = raised,
                     !.frames = Append(@, [data    |-> p.buffer,
                                           invoked |-> invoked,
                                           raised  |-> raised])]
         ELSE [p EXCEPT !.buffer = NoBuffer]
    ELSE [p EXCEPT !.buffer = NoBuffer]

RECURSIVE parse(_, _)
\* NmeaParser.parse(data)
parse(p, data) ==
    IF data = <<>> \/ p.raised # "" THEN p ELSE parse(parse_byte(p, Head(data)), Tail(data))

(***************************************************************************)
(* State.                                                                  *)
(***************************************************************************)
VARIABLES
    \* PointPerfectClient: configuration, fixed by __init__
    localized, tile_level, plan, epochs, assist_now, mqtt_topics,
    \* PointPerfectClient: session state
    lat, lon, epoch_count, dlon_threshold, tile_dict, tile_topic,
    spartn_topic, assist_now_topic, connected, new_server, mqtt_server,
    \* the MQTT session
    link, subs, msgs,
    \* loop_forever: "waiting" for the first connect, then "reading"
    ingest,
    \* the calls made by the last handler, and the kind of event it handled
    calls, ev,
    \* NmeaParser: self.buffer, the sentences the last parse call brought to
    \* the checksum test, the number of parse calls, self.callbacks
    buffer, frames, feeds, registered,
    \* the two threads, statement by statement: the statement the main
    \* thread (loop_forever, "ingest") and the network thread (loop_start,
    \* "net") stand at, and the locals of the handlers they run
    pc, fix, new_tile_topic, nearest_node, msg,
    \* the handlers the two threads have entered so far
    entered

confvars == <<localized, tile_level, plan, epochs, assist_now, mqtt_topics>>

ctrlvars == <<lat, lon, epoch_count, dlon_threshold, tile_dict, tile_topic,
              spartn_topic, assist_now_topic, connected, new_server,
              mqtt_server>>

netvars == <<link, subs, msgs>>

parservars == <<buffer, frames, feeds, registered>>

threadvars == <<pc, fix, new_tile_topic, nearest_node, msg, entered>>

vars == <<confvars, ctrlvars, netvars, ingest, calls, ev, parservars,
          threadvars>>

\* the state as the record the handlers work on, with an empty call list
Cur ==
    [localized |-> localized, tile_level |-> tile_level, plan |-> plan,
     epochs |-> epochs, assist_now |-> assist_now,
     mqtt_topics |-> mqtt_topics, lat |-> lat, lon |-> lon,
     epoch_count |-> epoch_count, dlon_threshold |-> dlon_threshold,
     tile_dict |-> tile_dict, tile_topic |-> tile_topic,
     spartn_topic |-> spartn_topic, assist_now_topic |-> assist_now_topic,
     connected |-> connected, new_server |-> new_server,
     mqtt_server |-> mqtt_server, link |-> link, subs |-> subs,
     msgs |-> msgs, calls |-> <<>>]

\* the state after a handler returned s (r is s, evaluated once)
Becomes(s) ==
  \E r \in {s} :
      /\ lat' = r.lat
      /\ lon' = r.lon
      /\ epoch_count' = r.epoch_count
      /\ dlon_threshold' = r.dlon_threshold
      /\ tile_dict' = r.tile_dict
      /\ tile_topic' = r.tile_topic
      /\ spartn_topic' = r.spartn_topic
      /\ assist_now_topic' = r.assist_now_topic
      /\ connected' = r.connected
      /\ new_server' = r.new_server
      /\ mqtt_server' = r.mqtt_server
      /\ link' = r.link
      /\ subs' = r.subs
      /\ msgs' = r.msgs
      /\ calls' = r.calls
      /\ UNCHANGED <<confvars, parservars, threadvars>>

(***************************************************************************)
(* The environment: servers, tile dictionaries, fix qualities.             *)
(***************************************************************************)
\* args.server, and one other endpoint a tile dictionary may name
Servers == {"A", "B"}

\* the quality field of a fix report: codes of QUALITIES (NOFIX, GNSS, FIXED,
\* DR, SIM)
Qualities == {0, 1, 4, 6, 8}

\* the result codes of the connect callback: accepted, refused
ReturnCodes == {0, 5}

N_4800 == <<"N", "4", "8", "0", "0", "E", "0", "1", "1", "5", "0">>
N_4925 == <<"N", "4", "9", "2", "5", "E", "0", "1", "1", "5", "0">>

\* the node list of the tile dictionaries the broker publishes
TileNodes == <<N_4800, N_4925>>

\* what the broker may publish on topic t; on a tile topic a dictionary, a
\* text that is not JSON, or the JSON text {} (kind "empty")
Payloads(t) ==
    IF endswith(t, T_dict_suffix)
    THEN { [kind |-> "dict", nodes |-> TileNodes,
            nodeprefix |-> SubSeq(t, 1, Len(t) - 4), endpoint |-> e]
           : e \in Servers } \cup { [kind |-> "notjson"], [kind |-> "empty"] }
    ELSE { [kind |-> "bytes", id |-> 1] }

(***************************************************************************)
(* Initial state: __init__ has returned, the first connect is under way.   *)
(***************************************************************************)
InitConf(loc, lband, forced, ep) ==
    /\ localized = loc
    /\ tile_level = 2
    /\ plan = Plan(lband)
    /\ epochs = ep
    /\ assist_now = forced
    /\ mqtt_topics = IF loc THEN <<>> ELSE << <<KeyTopic(Plan(lband)), 1>> >>
    /\ assist_now_topic = IF forced THEN T_mga ELSE <<>>

InitSession(region) ==
    /\ lat = 0
    /\ lon = 0
    /\ epoch_count = 0
    /\ dlon_threshold = 0
    /\ tile_dict = NoDict
    /\ tile_topic = <<>>
    /\ spartn_topic = IF region = <<>> THEN <<>> ELSE PlanPrefix(plan) \o region
    /\ connected = FALSE
    /\ new_server = ""
    /\ mqtt_server = "A"
    /\ link = "connecting"
    /\ subs = {}
    /\ msgs = <<>>
    /\ ingest = "waiting"
    /\ calls = <<Call("connect", <<>>, 0, "A")>>
    /\ ev = "init"

\* NmeaParser.__init__
InitParser(handlers) ==
    /\ buffer = NoBuffer
    /\ frames = <<>>
    /\ feeds = 0
    /\ registered = handlers

NoFix == [quality |-> 0, lat |-> 0, lon |-> 0]

NoMsg == [topic |-> <<>>, payload |-> [kind |-> "none"]]

\* no handler is running
InitThreads ==
    /\ pc = [ingest |-> "idle", net |-> "idle"]
    /\ fix = NoFix
    /\ new_tile_topic = <<>>
    /\ nearest_node = [ingest |-> <<>>, net |-> <<>>]
    /\ msg = NoMsg
    /\ entered = 0

Init ==
    /\ \/ \E forced \in BOOLEAN, ep \in {-1, MaxEpochs} :
             InitConf(TRUE, FALSE, forced, ep) /\ InitSession(<<>>)
       \/ \E forced \in BOOLEAN, lband \in BOOLEAN,
             region \in {<<>>, <<"e", "u">>} :
             InitConf(FALSE, lband, forced, -1) /\ InitSession(region)
    /\ InitParser(callbacks)
    /\ InitThreads

(***************************************************************************)
(* Events.  Each handler runs to completion (one event at a time).         *)
(***************************************************************************)
\* loop_forever leaves its wait for the first connect
LoopStart ==
    /\ ingest = "waiting"
    /\ connected
    /\ ingest' = "reading"
    /\ UNCHANGED <<confvars, ctrlvars, netvars, calls, ev, parservars,
                   threadvars>>

\* the ingest loop reads a fix report and the framer hands it over
Fix(quality, pos) ==
    /\ ingest = "reading"
    /\ ev' = "fix"
    /\ UNCHANGED ingest
    /\ \E s \in {handle_nmea_gga(Cur, quality, pos[1], pos[2])} :
          s.epoch_count <= MaxEpochs /\ Becomes(s)

\* the broker answers the connect
ConnAck(rc) ==
    /\ link = "connecting"
    /\ Becomes(on_mqtt_connect(
           [Cur EXCEPT !.link = IF rc = 0 THEN "up" ELSE "down",
                       !.subs = IF rc = 0 THEN @ ELSE {}], rc))
    /\ ev' = "connect"
    /\ UNCHANGED ingest

\* the disconnect requested by disconnect() completes
DisconnectComplete ==
    /\ link = "closing"
    /\ Becomes(on_mqtt_disconnect(
           [Cur EXCEPT !.link = "down", !.subs = {}, !.msgs = <<>>], 0))
    /\ ev' = "disconnect"
    /\ UNCHANGED ingest

\* the connection is lost without a request
ConnectionLost ==
    /\ link = "up"
    /\ Becomes(on_mqtt_disconnect(
           [Cur EXCEPT !.link = "down", !.subs = {}, !.msgs = <<>>], 1))
    /\ ev' = "disconnect"
    /\ UNCHANGED ingest

\* the broker sends a message on a subscribed topic
Publish(t, payload) ==
    /\ link = "up"
    /\ t \in subs
    /\ Len(msgs) < MaxInflight
    /\ msgs' = Append(msgs, [topic |-> t, payload |-> payload])
    /\ UNCHANGED <<confvars, ctrlvars, link, subs, ingest, calls, ev,
                   parservars, threadvars>>

\* a message in flight reaches the client
Deliver ==
    /\ msgs # <<>>
    /\ link \in {"up", "closing"}
    /\ Becomes(on_mqtt_message([Cur EXCEPT !.msgs = Tail(@)],
                               Head(msgs).topic, Head(msgs).payload))
    /\ ev' = "message"
    /\ UNCHANGED ingest

Next ==
    \/ LoopStart
    \/ \E quality \in Qualities, pos \in Positions : Fix(quality, pos)
    \/ \E rc \in ReturnCodes : ConnAck(rc)
    \/ DisconnectComplete
    \/ ConnectionLost
    \/ \E t \in subs : \E payload \in Payloads(t) : Publish(t, payload)
    \/ Deliver

Spec == Init /\ [][Next]_vars

(***************************************************************************)
(* The framer alone: loop_forever hands it what the receiver link          *)
(* delivered, in chunks.                                                   *)
(***************************************************************************)
\* parse calls explored
MaxFeeds == 5

\* what one read of the receiver link may return
Chunks ==
    { Bytes(<<"$", "G", "P", "G", "G", "A", ",">>),
      Bytes(<<"$", "G", "P">>),
      Bytes(<<"G", "G", "A", ",">>),
      Bytes(<<"7", "M">>),
      Bytes(<<"*", "7", "A">>),
      Bytes(<<"*", "0", "0">>),
      Bytes(<<"*", "-", "0">>),
      Bytes(<<"*", "-", "A">>),
      Bytes(<<"*", "7", "A">>) \o <<CR>> \o Bytes(<<"$", "G", "P">>),
      Bytes(<<"*">>),
      Bytes(<<"0">>),
      Bytes(<<"-">>),
      \* a fix report with its seven first fields, and one whose latitude is
      \* a letter
      Bytes(<<"$", "G", "P", "G", "G", "A", ",", ",", "4", "8", "0", "7", ".",
              "0", "4", ",", "N", ",", "0", "1", "1", "3", "1", ".", "0", "0",
              ",", "E", ",", "1", ",", "*", "7", "D">>),
      Bytes(<<"$", "G", "P", "G", "G", "A", ",", ",", "A", ",", "N", ",", ",",
              "E", ",", "1", ",", "*", "0", "1">>),
      <<CR>>,
      \* a line feed: a byte parse does not accept
      <<10>> }

\* the dictionaries NmeaParser is constructed with: the one of
\* PointPerfectClient, and two that add a pattern matching the same sentences
Registrations ==
    { callbacks,
      <<"handle_nmea_gga", "handle_gp">>,
      <<"handle_gp", "handle_nmea_gga">> }

InitFramer ==
    /\ InitConf(TRUE, FALSE, FALSE, -1)
    /\ InitSession(<<>>)
    /\ \E handlers \in Registrations : InitParser(handlers)
    /\ InitThreads

\* self.nmea_parser.parse(buffer[0:bytes_read])
Feed(data) ==
    /\ feeds < MaxFeeds
    \* no exception has left loop_forever
    /\ \A i \in DOMAIN frames : frames[i].raised = ""
    /\ \E p \in {parse([buffer |-> buffer, frames |-> <<>>,
                         callbacks |-> registered, raised |-> ""], data)} :
          /\ buffer' = p.buffer
          /\ frames' = p.frames
    /\ feeds' = feeds + 1
    /\ UNCHANGED registered
    /\ UNCHANGED <<confvars, ctrlvars, netvars, ingest, calls, ev, threadvars>>

NextFramer == \E data \in Chunks : Feed(data)

SpecParser == InitFramer /\ [][NextFramer]_vars

(***************************************************************************)
(* The two threads.  __init__ ends with loop_start(): the network thread   *)
(* runs the three callbacks, the main thread runs loop_forever and the     *)
(* handlers the framer invokes.  Both work on the same object; no lock is  *)
(* taken anywhere.  One step is one statement; a label is the prefix of    *)
(* the function (gga: handle_nmea_gga, pp: process_position, sn:           *)
(* select_node, oc: on_mqtt_connect, od: on_mqtt_disconnect, om:           *)
(* on_mqtt_message, ptd: process_tile_data) and the line of the statement. *)
(***************************************************************************)
Threads == {"ingest", "net"}

\* handlers the two threads enter, together
MaxEntered == 4

\* the session state becomes s; what the atomic handlers record is untouched
Apply(s) ==
  \E r \in {s} :
      /\ lat' = r.lat
      /\ lon' = r.lon
      /\ epoch_count' = r.epoch_count
      /\ dlon_threshold' = r.dlon_threshold
      /\ tile_dict' = r.tile_dict
      /\ tile_topic' = r.tile_topic
      /\ spartn_topic' = r.spartn_topic
      /\ assist_now_topic' = r.assist_now_topic
      /\ connected' = r.connected
      /\ new_server' = r.new_server
      /\ mqtt_server' = r.mqtt_server
      /\ link' = r.link
      /\ subs' = r.subs
      /\ msgs' = r.msgs
      /\ UNCHANGED <<confvars, ingest, calls, ev, parservars>>

At(t, label) == pc[t] = label

\* thread t goes on to the statement at label
Goto(t, label) ==
    /\ pc' = [pc EXCEPT ![t] = label]
    /\ UNCHANGED <<fix, new_tile_topic, nearest_node, msg, entered>>

\* the handler thread t runs returns; its locals are gone
Return(t) ==
    /\ pc' = [pc EXCEPT ![t] = "idle"]
    /\ nearest_node' = [nearest_node EXCEPT ![t] = <<>>]
    /\ IF t = "ingest"
       THEN fix' = NoFix /\ new_tile_topic' = <<>> /\ UNCHANGED msg
       ELSE msg' = NoMsg /\ UNCHANGED <<fix, new_tile_topic>>
    /\ UNCHANGED entered

\* the fix qualities and positions the receiver reports
ThreadQualities == {0, 1}

\* thread t enters a handler at label
Enter(t, label) ==
    /\ At(t, "idle")
    /\ entered < MaxEntered
    /\ entered' = entered + 1
    /\ pc' = [pc EXCEPT ![t] = label]

\* process_position is entered: "if self.localized"
EnterPP == IF localized THEN "pp297" ELSE "pp318"

\* loop_forever reads a fix report, the framer invokes handle_nmea_gga, which
\* decodes the fields and tests "quality in (0, 6)"
Read(quality, pos) ==
    /\ ingest = "reading"
    \* the counter stays within the bound
    /\ \/ ~localized
       \/ quality \in {0, 6}
       \/ epoch_count < MaxEpochs
       \/ MovedBeyond(pos[1], lat, dlat_threshold)
       \/ MovedBeyond(pos[2], lon, dlon_threshold)
    /\ fix' = [quality |-> quality, lat |-> pos[1], lon |-> pos[2]]
    /\ Enter("ingest", IF quality \in {0, 6} THEN "gga281" ELSE "gga286")
    /\ UNCHANGED <<new_tile_topic, nearest_node, msg>>
    /\ Apply(Cur)

gga281 ==
    /\ At("ingest", "gga281")
    /\ IF assist_now_topic = <<>> THEN Goto("ingest", "gga282")
       ELSE Return("ingest")
    /\ Apply(Cur)

gga282 ==
    /\ At("ingest", "gga282")
    /\ Goto("ingest", "gga284")
    /\ Apply([Cur EXCEPT !.assist_now_topic = T_mga])

gga284 ==
    /\ At("ingest", "gga284")
    /\ Return("ingest")
    /\ Apply(Subscribe(Cur, assist_now_topic, 1))

gga286 ==
    /\ At("ingest", "gga286")
    /\ Goto("ingest", IF assist_now_topic # <<>> /\ ~assist_now
                      THEN "gga288" ELSE EnterPP)
    /\ Apply(Cur)

gga288 ==
    /\ At("ingest", "gga288")
    /\ Goto("ingest", "gga289")
    /\ Apply(Unsubscribe(Cur, assist_now_topic))

gga289 ==
    /\ At("ingest", "gga289")
    /\ Goto("ingest", EnterPP)
    /\ Apply([Cur EXCEPT !.assist_now_topic = <<>>])

pp297 ==
    /\ At("ingest", "pp297")
    /\ Goto("ingest", "pp299")
    /\ Apply([Cur EXCEPT !.epoch_count = @ + 1])

pp299 ==
    /\ At("ingest", "pp299")
    /\ IF \/ MovedBeyond(fix.lat, lat, dlat_threshold)
          \/ MovedBeyond(fix.lon, lon, dlon_threshold)
          \/ EpochsExceeded(epoch_count, epochs)
       THEN Goto("ingest", "pp303")
       ELSE Return("ingest")
    /\ Apply(Cur)

pp303 ==
    /\ At("ingest", "pp303")
    /\ Goto("ingest", "pp304")
    /\ Apply([Cur EXCEPT !.lat = fix.lat])

pp304 ==
    /\ At("ingest", "pp304")
    /\ Goto("ingest", "pp305")
    /\ Apply([Cur EXCEPT !.lon = fix.lon])

\* lines 305 and 306: only this thread uses the two fields
pp305 ==
    /\ At("ingest", "pp305")
    /\ Goto("ingest", "pp307")
    /\ Apply([Cur EXCEPT !.epoch_count = 0,
                         !.dlon_threshold = DlonThreshold(lat)])

\* lines 307 and 308
pp307 ==
    /\ At("ingest", "pp307")
    /\ \E new \in {get_tile_topic(tile_level, lat, lon)} :
          /\ new_tile_topic' = new
          /\ pc' = [pc EXCEPT !.ingest = IF new # tile_topic THEN "pp309"
                                         ELSE "sn332"]
    /\ UNCHANGED <<fix, nearest_node, msg, entered>>
    /\ Apply(Cur)

\* lines 309 and 310
pp309 ==
    /\ At("ingest", "pp309")
    /\ Goto("ingest", "pp312")
    /\ Apply(IF tile_topic # <<>> THEN Unsubscribe(Cur, tile_topic) ELSE Cur)

pp312 ==
    /\ At("ingest", "pp312")
    /\ Goto("ingest", "pp313")
    /\ Apply(Subscribe(Cur, new_tile_topic, 1))

pp313 ==
    /\ At("ingest", "pp313")
    /\ Return("ingest")
    /\ Apply([Cur EXCEPT !.tile_topic = new_tile_topic])

pp318 ==
    /\ At("ingest", "pp318")
    /\ IF spartn_topic = <<>> THEN Goto("ingest", "pp320")
       ELSE Return("ingest")
    /\ Apply(Cur)

pp320 ==
    /\ At("ingest", "pp320")
    /\ Goto("ingest", "pp321")
    /\ Apply([Cur EXCEPT !.lat = fix.lat])

pp321 ==
    /\ At("ingest", "pp321")
    /\ Goto("ingest", "pp324")
    /\ Apply([Cur EXCEPT !.lon = fix.lon])

pp324 ==
    /\ At("ingest", "pp324")
    /\ Goto("ingest", "sn332")
    /\ Apply([Cur EXCEPT !.tile_dict = [kind       |-> "dict",
                                        nodes      |-> REGION_KEYS,
                                        nodeprefix |-> PlanPrefix(plan),
                                        endpoint   |-> mqtt_server]])

\* select_node, run by thread t
sn332(t) ==
    /\ At(t, "sn332")
    /\ IF DictTruthy(tile_dict) THEN Goto(t, "sn340") ELSE Return(t)
    /\ Apply(Cur)

\* lines 340 to 361: the nearest node of the dictionary, for the position
\* read here
sn340(t) ==
    /\ At(t, "sn340")
    /\ \E nearest \in {NearestNode(tile_dict.nodes, lat, lon)} :
          nearest_node' =
              [nearest_node EXCEPT ![t] = IF localized THEN nearest
                                          ELSE REGION_MAPPING(nearest)]
    /\ pc' = [pc EXCEPT ![t] = "sn362"]
    /\ UNCHANGED <<fix, new_tile_topic, msg, entered>>
    /\ Apply(Cur)

sn362(t) ==
    /\ At(t, "sn362")
    /\ Goto(t, IF mqtt_server # tile_dict.endpoint THEN "sn367" ELSE "sn371")
    /\ Apply(Cur)

sn367(t) ==
    /\ At(t, "sn367")
    /\ Goto(t, "sn368")
    /\ Apply([Cur EXCEPT !.new_server = tile_dict.endpoint])

sn368(t) ==
    /\ At(t, "sn368")
    /\ Goto(t, "sn369")
    /\ Apply([Cur EXCEPT !.spartn_topic =
                             tile_dict.nodeprefix \o nearest_node[t]])

sn369(t) ==
    /\ At(t, "sn369")
    /\ Return(t)
    /\ Apply(Disconnect(Cur))

\* lines 371 and 372
sn371(t) ==
    /\ At(t, "sn371")
    /\ Goto(t, "sn373")
    /\ Apply(IF spartn_topic # <<>> THEN Unsubscribe(Cur, spartn_topic)
             ELSE Cur)

sn373(t) ==
    /\ At(t, "sn373")
    /\ Goto(t, "sn375")
    /\ Apply([Cur EXCEPT !.spartn_topic =
                             tile_dict.nodeprefix \o nearest_node[t]])

sn375(t) ==
    /\ At(t, "sn375")
    /\ Return(t)
    /\ Apply(Subscribe(Cur, spartn_topic, 0))

\* the broker answers the connect; the network thread enters on_mqtt_connect
\* and tests "return_code == 0"
NetConnAck(rc) ==
    /\ link = "connecting"
    /\ Enter("net", IF rc = 0 THEN "oc183" ELSE "idle")
    /\ UNCHANGED <<fix, new_tile_topic, nearest_node, msg>>
    /\ Apply([Cur EXCEPT !.link = IF rc = 0 THEN "up" ELSE "down",
                         !.subs = IF rc = 0 THEN @ ELSE {}])

oc183 ==
    /\ At("net", "oc183")
    /\ Goto("net", "oc185")
    /\ Apply([Cur EXCEPT !.connected = TRUE])

\* lines 185 to 188
oc185 ==
    /\ At("net", "oc185")
    /\ Goto("net", "oc189")
    /\ Apply(SubscribeAll(Cur, mqtt_topics))

\* lines 189 to 191
oc189 ==
    /\ At("net", "oc189")
    /\ Goto("net", "oc192")
    /\ Apply(IF spartn_topic # <<>> THEN Subscribe(Cur, spartn_topic, 0)
             ELSE Cur)

\* lines 192 to 195
oc192 ==
    /\ At("net", "oc192")
    /\ Return("net")
    /\ Apply(IF assist_now_topic # <<>>
             THEN Subscribe(Cur, assist_now_topic,
                            IF endswith(assist_now_topic, T_updates_suffix)
                            THEN 0 ELSE 1)
             ELSE Cur)

\* the session ends, on request (lost = FALSE) or not; the network thread
\* enters on_mqtt_disconnect
NetDisconnect(lost) ==
    /\ link = IF lost THEN "up" ELSE "closing"
    /\ Enter("net", "od203")
    /\ UNCHANGED <<fix, new_tile_topic, nearest_node, msg>>
    /\ Apply([Cur EXCEPT !.link = "down", !.subs = {}, !.msgs = <<>>])

od203 ==
    /\ At("net", "od203")
    /\ Goto("net", "od204")
    /\ Apply([Cur EXCEPT !.connected = FALSE])

od204 ==
    /\ At("net", "od204")
    /\ IF new_server # "" THEN Goto("net", "od205") ELSE Return("net")
    /\ Apply(Cur)

od205 ==
    /\ At("net", "od205")
    /\ Goto("net", "od206")
    /\ Apply([Cur EXCEPT !.mqtt_server = new_server])

od206 ==
    /\ At("net", "od206")
    /\ Goto("net", "od208")
    /\ Apply([Cur EXCEPT !.new_server = ""])

od208 ==
    /\ At("net", "od208")
    /\ Return("net")
    /\ Apply(Connect(Cur, mqtt_server))

\* a message in flight reaches the client; the network thread enters
\* on_mqtt_message
NetDeliver ==
    /\ msgs # <<>>
    /\ link \in {"up", "closing"}
    /\ msg' = Head(msgs)
    /\ Enter("net", "om216")
    /\ UNCHANGED <<fix, new_tile_topic, nearest_node>>
    /\ Apply([Cur EXCEPT !.msgs = Tail(@)])

\* lines 216 to 220 and 225 to 232: where the message goes
om216 ==
    /\ At("net", "om216")
    /\ IF msg.topic = T_mga /\ ~startswith(msg.topic, PlanPrefix(plan))
       THEN Goto("net", "om221")
       ELSE IF /\ ~startswith(msg.topic, PlanPrefix(plan))
               /\ ~startswith(msg.topic, T_pp_ubx)
               /\ startswith(msg.topic, T_pp_ip)
               /\ endswith(msg.topic, T_dict_suffix)
       THEN Goto("net", "ptd398")
       ELSE Return("net")
    /\ Apply(Cur)

om221 ==
    /\ At("net", "om221")
    /\ Goto("net", "om222")
    /\ Apply(Unsubscribe(Cur, T_mga))

om222 ==
    /\ At("net", "om222")
    /\ Goto("net", "om224")
    /\ Apply([Cur EXCEPT !.assist_now_topic = T_mga_updates])

om224 ==
    /\ At("net", "om224")
    /\ Return("net")
    /\ Apply(Subscribe(Cur, assist_now_topic, 0))

\* process_tile_data: a payload that is not JSON raises and the callback
\* ends; otherwise tile_dict is assigned and select_node follows
ptd398 ==
    /\ At("net", "ptd398")
    /\ IF msg.payload.kind = "notjson"
       THEN Return("net") /\ Apply(Cur)
       ELSE Goto("net", "sn332") /\ Apply([Cur EXCEPT !.tile_dict = msg.payload])

\* __init__ has returned in localized mode, or with the region to be detected
InitTwoThreads ==
    /\ \E loc \in BOOLEAN : InitConf(loc, FALSE, FALSE, -1)
    /\ InitSession(<<>>)
    /\ InitParser(callbacks)
    /\ InitThreads

NextThreads ==
    \/ LoopStart
    \/ \E quality \in ThreadQualities, pos \in Positions : Read(quality, pos)
    \/ gga281 \/ gga282 \/ gga284 \/ gga286 \/ gga288 \/ gga289
    \/ pp297 \/ pp299 \/ pp303 \/ pp304 \/ pp305 \/ pp307 \/ pp309
    \/ pp312 \/ pp313 \/ pp318 \/ pp320 \/ pp321 \/ pp324
    \/ \E t \in Threads :
          \/ sn332(t) \/ sn340(t) \/ sn362(t) \/ sn367(t) \/ sn368(t)
          \/ sn369(t) \/ sn371(t) \/ sn373(t) \/ sn375(t)
    \/ \E rc \in ReturnCodes : NetConnAck(rc)
    \/ \E lost \in BOOLEAN : NetDisconnect(lost)
    \/ oc183 \/ oc185 \/ oc189 \/ oc192
    \/ od203 \/ od204 \/ od205 \/ od206 \/ od208
    \/ \E t \in subs : \E payload \in Payloads(t) : Publish(t, payload)
    \/ NetDeliver
    \/ om216 \/ om221 \/ om222 \/ om224 \/ ptd398

SpecThreads == InitTwoThreads /\ [][NextThreads]_vars

(***************************************************************************)
(* Properties of the controller, one event at a time (Spec).               *)
(***************************************************************************)
IsTileTopic(t) == startswith(t, T_pp_ip) /\ endswith(t, T_dict_suffix)

IsCorrectionTopic(t) ==
    \/ startswith(t, PlanPrefix(plan))
    \/ startswith(t, T_pp_ip) /\ ~endswith(t, T_dict_suffix)

IsInitTopic(t) == t \in {T_mga, T_mga_updates}

\* the positions in call list cs of the calls op(topic)
CallsOf(cs, op, topic) ==
    {i \in 1..Len(cs) : cs[i].op = op /\ cs[i].topic = topic}

\* the positions in call list cs of the calls named op
Ops(cs, op) == {i \in 1..Len(cs) : cs[i].op = op}

FixStep == \E quality \in Qualities, pos \in Positions : Fix(quality, pos)

ConnAckStep == \E rc \in ReturnCodes : ConnAck(rc)

\* C1: handling one event at a time, the broker never holds more than one
\* tile-metadata subscription nor more than one correction-data subscription.
C1_AtMostOneEach ==
    /\ Cardinality({t \in subs : IsTileTopic(t)}) <= 1
    /\ Cardinality({t \in subs : IsCorrectionTopic(t)}) <= 1

\* C1 witness: a handler switched the correction topic (unsubscribed one,
\* subscribed another) while a tile topic is subscribed too.
C1_Witness ==
    /\ \E i \in Ops(calls, "unsubscribe"), j \in Ops(calls, "subscribe") :
          /\ IsCorrectionTopic(calls[i].topic)
          /\ IsCorrectionTopic(calls[j].topic)
          /\ calls[i].topic # calls[j].topic
    /\ Cardinality({t \in subs : IsTileTopic(t)}) = 1
    /\ Cardinality({t \in subs : IsCorrectionTopic(t)}) = 1

\* C3 as claimed: the initialization topic changes only along
\* absent -> initial -> updates -> absent.
C3_OnlyCycle ==
    [][ \/ assist_now_topic' = assist_now_topic
        \/ assist_now_topic = <<>> /\ assist_now_topic' = T_mga
        \/ assist_now_topic = T_mga /\ assist_now_topic' = T_mga_updates
        \/ assist_now_topic = T_mga_updates /\ assist_now_topic' = <<>> ]_vars

\* C3 as amended: the initialization topic changes only along absent ->
\* initial (a fix), initial -> updates (a message), initial -> absent and
\* updates -> absent (a fix), absent -> updates (a message on the initial
\* topic still in flight); it never goes from updates to initial.
C3_Transitions ==
    [][ \/ assist_now_topic' = assist_now_topic
        \/ assist_now_topic = <<>> /\ assist_now_topic' = T_mga /\ FixStep
        \/ assist_now_topic = T_mga /\ assist_now_topic' = T_mga_updates
             /\ Deliver
        \/ assist_now_topic = T_mga /\ assist_now_topic' = <<>> /\ FixStep
        \/ assist_now_topic = T_mga_updates /\ assist_now_topic' = <<>>
             /\ FixStep
        \/ assist_now_topic = <<>> /\ assist_now_topic' = T_mga_updates
             /\ Deliver ]_vars

\* C3 witness: the cycle is closed, a fix dropped the updates topic.
C3_Witness ==
    /\ ev = "fix"
    /\ assist_now_topic = <<>>
    /\ CallsOf(calls, "unsubscribe", T_mga_updates) # {}

\* C4: a fix subscribes the initial topic (QoS 1, once) iff its quality is 0
\* or 6 and no initialization topic is active; it unsubscribes the active
\* initialization topic (once) and clears it iff its quality is another code,
\* a topic is active and AssistNow is not forced.
C4_FixInitTopic ==
    [][ \A quality \in Qualities, pos \in Positions :
          Fix(quality, pos) =>
            LET sub   == quality \in {0, 6} /\ assist_now_topic = <<>>
                unsub == /\ quality \notin {0, 6}
                         /\ assist_now_topic # <<>>
                         /\ ~assist_now
                inits == {i \in 1..Len(calls') : IsInitTopic(calls'[i].topic)}
            IN  /\ sub => /\ inits = CallsOf(calls', "subscribe", T_mga)
                          /\ Cardinality(inits) = 1
                          /\ \A i \in inits : calls'[i].qos = 1
                          /\ assist_now_topic' = T_mga
                /\ unsub => /\ inits = CallsOf(calls', "unsubscribe",
                                               assist_now_topic)
                            /\ Cardinality(inits) = 1
                            /\ assist_now_topic' = <<>>
                /\ ~sub /\ ~unsub => /\ inits = {}
                                     /\ assist_now_topic' = assist_now_topic
      ]_vars

\* C4 witness: quality 0 then another quality, no message in between: the
\* fix unsubscribed the initial topic.
C4_Witness ==
    /\ ev = "fix"
    /\ assist_now_topic = <<>>
    /\ CallsOf(calls, "unsubscribe", T_mga) # {}

\* C5: a run of node selection with a tile dictionary issues a disconnect
\* iff the dictionary's endpoint differs from the active server.
C5_DisconnectIffEndpointDiffers ==
    Ops(calls, "select") # {} =>
        (Ops(calls, "disconnect") # {} <=> tile_dict.endpoint # mqtt_server)

\* C5 witness: node selection ran against another endpoint and disconnected.
C5_Witness ==
    /\ Ops(calls, "select") # {}
    /\ Ops(calls, "disconnect") # {}
    /\ tile_dict.endpoint = "B"
    /\ mqtt_server = "A"

\* a migration is under way: the target is recorded, or the connect to it
\* has been started and not answered
MigrationPending ==
    \/ new_server # ""
    \/ link = "connecting" /\ ingest = "reading"

\* C6 as claimed: node selection that finds another endpoint records it and
\* the new correction topic, disconnects and subscribes nothing; until the
\* connect to the new endpoint succeeds, no other event subscribes a
\* correction topic.
C6_SubscribeOnlyOnConnect ==
    [][ /\ (FixStep \/ Deliver) /\ Ops(calls', "select") # {}
           /\ tile_dict'.endpoint # mqtt_server
           => /\ new_server' = tile_dict'.endpoint
              /\ \E i \in Ops(calls', "select") :
                    spartn_topic' = tile_dict'.nodeprefix \o calls'[i].topic
              /\ Ops(calls', "disconnect") # {}
              /\ Ops(calls', "subscribe") = {}
        /\ (FixStep \/ Deliver) /\ MigrationPending
           => \A i \in Ops(calls', "subscribe") :
                 ~IsCorrectionTopic(calls'[i].topic) ]_vars

\* C7: a disconnect callback clears connected; with a pending endpoint it
\* clears the marker, makes the endpoint the active server and connects to it
\* once; without one it connects to nothing and keeps the active server.
C7_DisconnectComplete ==
    [][ DisconnectComplete \/ ConnectionLost =>
          /\ ~connected'
          /\ new_server' = ""
          /\ IF new_server # ""
             THEN /\ mqtt_server' = new_server
                  /\ calls' = <<Call("connect", <<>>, 0, new_server)>>
                  /\ link' = "connecting"
             ELSE /\ mqtt_server' = mqtt_server
                  /\ calls' = <<>>
                  /\ link' = "down" ]_vars

\* C7 witness: the disconnect callback has connected to the pending endpoint.
C7_Witness ==
    /\ ev = "disconnect"
    /\ mqtt_server = "B"
    /\ new_server = ""
    /\ calls = <<Call("connect", <<>>, 0, "B")>>

\* the subscribes C8 expects of a successful connect callback
C8_Expected ==
    (IF localized THEN <<>>
     ELSE <<Call("subscribe", KeyTopic(plan), 1, "")>>)
    \o (IF spartn_topic # <<>>
        THEN <<Call("subscribe", spartn_topic, 0, "")>> ELSE <<>>)
    \o (CASE assist_now_topic = T_mga ->
               <<Call("subscribe", T_mga, 1, "")>>
          [] assist_now_topic = T_mga_updates ->
               <<Call("subscribe", T_mga_updates, 0, "")>>
          [] OTHER -> <<>>)

\* C8: a connect callback with result 0 sets connected and subscribes exactly
\* the key topic (non-localized only, QoS 1), the recorded correction topic
\* (QoS 0) and the active initialization topic (QoS 1 initial, 0 updates),
\* never a tile topic; with another result it subscribes nothing and
\* connected stays false.
C8_ConnectSubscribes ==
    [][ \A rc \in ReturnCodes :
          ConnAck(rc) =>
            IF rc = 0
            THEN /\ connected'
                 /\ calls' = C8_Expected
                 /\ \A i \in 1..Len(calls') : ~IsTileTopic(calls'[i].topic)
            ELSE /\ ~connected'
                 /\ calls' = <<>> ]_vars

\* C8 witness: a successful connect callback resubscribed a correction topic
\* and the updates topic while a tile topic is recorded.
C8_Witness ==
    /\ ev = "connect"
    /\ connected
    /\ tile_topic # <<>>
    /\ spartn_topic # <<>>
    /\ calls = <<Call("subscribe", spartn_topic, 0, ""),
                 Call("subscribe", T_mga_updates, 0, "")>>

(***************************************************************************)
(* Properties of the framer (SpecParser).                                  *)
(***************************************************************************)
\* the two bytes after the checksum marker of a sentence
ChecksumField(data) == SubSeq(data, Len(data) - 1, Len(data))

\* both bytes are hexadecimal digits
IsHexPair(pair) == HexDigit(pair[1]) >= 0 /\ HexDigit(pair[2]) >= 0

HexPairValue(pair) == 16 * HexDigit(pair[1]) + HexDigit(pair[2])

\* the exclusive-or of the bytes strictly between '$' and the marker
PayloadXor(data) == XorAll(SubSeq(data, 2, Len(data) - 3), 0)

\* C9: no callback is invoked for a sentence whose two-digit hexadecimal
\* checksum field differs from the exclusive-or of the bytes between '$' and
\* the checksum marker, however the bytes were cut into chunks.
C9_ChecksumGate ==
    \A i \in DOMAIN frames :
        LET data == frames[i].data
        IN  (/\ IsHexPair(ChecksumField(data))
             /\ HexPairValue(ChecksumField(data)) # PayloadXor(data))
            => frames[i].invoked = <<>>

\* a GGA sentence fed in several chunks, with a hexadecimal checksum that is
\* not its exclusive-or, was ended and no callback was invoked
C9_Witness ==
    /\ feeds >= 3
    /\ \E i \in DOMAIN frames :
          /\ MatchGGA(frames[i].data)
          /\ IsHexPair(ChecksumField(frames[i].data))
          /\ HexPairValue(ChecksumField(frames[i].data))
                # PayloadXor(frames[i].data)
          /\ frames[i].invoked = <<>>

\* C10 as claimed: a sentence whose checksum field is not two hexadecimal
\* digits is never handed to a callback.
C10_NonHexNeverDispatched ==
    \A i \in DOMAIN frames :
        ~IsHexPair(ChecksumField(frames[i].data)) => frames[i].invoked = <<>>

(***************************************************************************)
(* Properties of the two threads (SpecThreads).                            *)
(***************************************************************************)
\* statements of the main thread's handlers that follow a write of the
\* session state the handler has made and precede its return
MidIngest ==
    {"gga284", "pp299", "pp303", "pp304", "pp305", "pp307", "pp309",
     "pp312", "pp313", "pp321", "pp324", "sn332", "sn340", "sn362", "sn367",
     "sn368", "sn369", "sn371", "sn373", "sn375"}

\* the same for the callbacks of the network thread
MidNet ==
    {"oc185", "oc189", "oc192", "od204", "od205", "od206", "od208", "om224",
     "sn332", "sn340", "sn362", "sn367", "sn368", "sn369", "sn371", "sn373",
     "sn375"}

\* C2 as claimed: a handler of the receiver-ingest context and a handler of
\* the transport-event context are never both part-way through a state
\* transition.
C2_Serialized == ~(pc.ingest \in MidIngest /\ pc.net \in MidNet)

C12_DecodeNeverRaises ==
    \A i \in DOMAIN frames :
        \A k \in DOMAIN frames[i].invoked :
            frames[i].invoked[k] = "handle_nmea_gga"
                => decode_gga(frames[i].data).raised = ""

\* C13 as claimed: a tile-metadata message whose payload is not a dictionary
\* with a node list, a node-topic prefix and an endpoint leaves a stored
\* dictionary as it was and issues no subscribe, unsubscribe or disconnect.
C13_MalformedKeepsDictionary ==
    [][(/\ DictTruthy(tile_dict)
        /\ msgs # <<>>
        /\ IsTileTopic(Head(msgs).topic)
        /\ Head(msgs).payload.kind # "dict"
        /\ Deliver)
           => /\ tile_dict' = tile_dict
              /\ calls' = <<>>]_vars

\* C14: in localized mode, as long as no tile dictionary has been stored, no
\* correction topic is subscribed, no disconnect is requested, and
\* spartn_topic and new_server are empty.
C14_SelectionDeferred ==
    (localized /\ tile_dict = NoDict) =>
        /\ spartn_topic = <<>>
        /\ new_server = ""
        /\ \A t \in subs : ~IsCorrectionTopic(t)
        /\ Ops(calls, "disconnect") = {}
        /\ Ops(calls, "select") = {}
        /\ \A i \in Ops(calls, "subscribe") : ~IsCorrectionTopic(calls[i].topic)

\* C14 witness: a fix moved the position within the subscribed tile, so
\* process_position ran select_node, and no dictionary was stored: nothing
\* was requested.
C14_Witness ==
    /\ localized /\ tile_dict = NoDict
    /\ ev = "fix"
    /\ lat = 4900 /\ epoch_count = 0
    /\ tile_topic # <<>>
    /\ assist_now_topic = <<>>
    /\ calls = <<>>

\* C15: in non-localized mode a fix runs node selection iff its quality is
\* not 0 or 6 and no correction topic is stored; it then stores the position,
\* chooses the region topic and subscribes it once, the dictionary's endpoint
\* being the active server; any other fix leaves the stored position and
\* spartn_topic as they were.  No fix requests a disconnect, and no step
\* changes a stored spartn_topic, so the selection happens at most once, and
\* never with a region configured at construction.
C15_RegionSelectedOnce ==
    [][ /\ (~localized /\ spartn_topic # <<>>) => spartn_topic' = spartn_topic
        /\ (~localized /\ ev' = "fix") =>
             \A quality \in Qualities, pos \in Positions :
               Fix(quality, pos) =>
                 LET sel  == Ops(calls', "select")
                     corr == {i \in Ops(calls', "subscribe") :
                                 IsCorrectionTopic(calls'[i].topic)}
                 IN  /\ Ops(calls', "disconnect") = {}
                     /\ IF quality \notin {0, 6} /\ spartn_topic = <<>>
                        THEN /\ Cardinality(sel) = 1
                             /\ Cardinality(corr) = 1
                             /\ spartn_topic' # <<>>
                             /\ \A i \in corr : calls'[i].topic = spartn_topic'
                             /\ lat' = pos[1] /\ lon' = pos[2]
                             /\ tile_dict'.endpoint = mqtt_server
                        ELSE /\ sel = {} /\ corr = {}
                             /\ spartn_topic' = spartn_topic
                             /\ lat' = lat /\ lon' = lon
      ]_vars

\* C15 witness: no region was configured, a first fix stored its position and
\* chose the region topic, and a later fix with a position changed nothing.
C15_Witness ==
    /\ ~localized
    /\ ev = "fix"
    /\ lat = 4812
    /\ spartn_topic = PlanPrefix(plan) \o <<"e", "u">>
    /\ spartn_topic \in subs
    /\ assist_now_topic = <<>>
    /\ calls = <<>>

(***************************************************************************)
(* get_tile_topic on its own: the tile level and the position are drawn    *)
(* from a grid (hundredths of a degree, both hemispheres, tile edges and   *)
(* their neighbours), and the function is applied once.                    *)
(***************************************************************************)
GridLat == {-9000, -4812, -1000, -251, -250, -249, -1, 0, 1, 249, 250, 499,
            500, 999, 1000, 4749, 4750, 4812, 4999, 5000, 9000}

GridLon == {-18000, -9660, -1152, -250, -1, 0, 1, 1124, 1152, 1249, 1250,
            17999, 18000}

\* a client that is connected and reading, nothing subscribed
InitUnit(lband) ==
    /\ localized = TRUE
    /\ plan = Plan(lband)
    /\ epochs = -1
    /\ assist_now = FALSE
    /\ mqtt_topics = <<>>
    /\ assist_now_topic = <<>>
    /\ epoch_count = 0
    /\ dlon_threshold = 0
    /\ spartn_topic = <<>>
    /\ connected = TRUE
    /\ new_server = ""
    /\ mqtt_server = "A"
    /\ link = "up"
    /\ subs = {}
    /\ ingest = "reading"
    /\ calls = <<>>
    /\ ev = "init"
    /\ InitParser(callbacks)
    /\ InitThreads

InitTile ==
    /\ InitUnit(FALSE)
    /\ tile_level \in {0, 1, 2}
    /\ lat \in GridLat
    /\ lon \in GridLon
    /\ tile_dict = NoDict
    /\ tile_topic = <<>>
    /\ msgs = <<>>

\* self.get_tile_topic(self.lat, self.lon)
Tile ==
    /\ ev = "init"
    /\ tile_topic' = get_tile_topic(tile_level, lat, lon)
    /\ ev' = "tile"
    /\ UNCHANGED <<confvars, lat, lon, epoch_count, dlon_threshold, tile_dict,
                   spartn_topic, assist_now_topic, connected, new_server,
                   mqtt_server, netvars, ingest, calls, parservars,
                   threadvars>>

NextTile == Tile

SpecTile == InitTile /\ [][NextTile]_vars

\* the centre a tile topic encodes: hemisphere letters and magnitudes
CentreLat(topic) ==
    (IF topic[9] = "S" THEN -1 ELSE 1) * DigitsVal(SubSeq(topic, 10, 13), 0)

CentreLon(topic) ==
    (IF topic[14] = "W" THEN -1 ELSE 1) * DigitsVal(SubSeq(topic, 15, 19), 0)

\* C16: the centre encoded in the topic of a position lies half an edge above
\* floor(position / edge) * edge in both coordinates, the topic of that centre
\* is the same topic, and every position of the grid in the same tile has the
\* same topic.
C16_TileStable ==
    ev = "tile" =>
        LET delta == Delta(tile_level)
            clat  == CentreLat(tile_topic)
            clon  == CentreLon(tile_topic)
        IN  /\ Len(tile_topic) = 24
            /\ clat - delta \div 2 = (lat \div delta) * delta
            /\ clon - delta \div 2 = (lon \div delta) * delta
            /\ get_tile_topic(tile_level, clat, clon) = tile_topic
            /\ \A la \in GridLat, lo \in GridLon :
                  (la \div delta = lat \div delta /\ lo \div delta = lon \div delta)
                      => get_tile_topic(tile_level, la, lo) = tile_topic

\* C16 witness: level 2, 48.12 N 11.52 E lies in the tile of centre
\* 48.75 N 11.25 E.
C16_Witness ==
    /\ ev = "tile"
    /\ tile_level = 2 /\ lat = 4812 /\ lon = 1152
    /\ tile_topic = <<"p", "p", "/", "i", "p", "/", "L", "2", "N", "4", "8",
                      "7", "5", "E", "0", "1", "1", "2", "5", "/", "d", "i",
                      "c", "t">>

(***************************************************************************)
(* Shutdown: the events of Spec, and the finally clause of loop_forever.   *)
(* The ingest loop may be left at any read (an exception, an interrupt).   *)
(***************************************************************************)
InitShutdown ==
    /\ InitConf(TRUE, FALSE, FALSE, -1)
    /\ InitSession(<<>>)
    /\ InitParser(callbacks)
    /\ InitThreads

\* the ingest loop is left: self.mqtt_client.disconnect()
Exit ==
    /\ ingest = "reading"
    /\ Becomes(Disconnect(Cur))
    /\ ev' = "exit"
    /\ ingest' = "stopping"

\* while self.connected: sleep, then self.mqtt_client.loop_stop(): no
\* callback runs any more
LoopStop ==
    /\ ingest = "stopping"
    /\ ~connected
    /\ ingest' = "stopped"
    /\ ev' = "stop"
    /\ calls' = <<Call("loop_stop", <<>>, 0, "")>>
    /\ link' = "released"
    /\ UNCHANGED <<confvars, ctrlvars, subs, msgs, parservars, threadvars>>

NextShutdown ==
    \/ LoopStart
    \/ \E quality \in Qualities, pos \in Positions : Fix(quality, pos)
    \/ \E rc \in ReturnCodes : ConnAck(rc)
    \/ DisconnectComplete
    \/ ConnectionLost
    \/ \E t \in subs : \E payload \in Payloads(t) : Publish(t, payload)
    \/ Deliver
    \/ Exit
    \/ LoopStop

SpecShutdown == InitShutdown /\ [][NextShutdown]_vars

\* C17 as claimed: once the ingest loop has been left, the client initiates
\* no connect.
C17_NoConnectAfterExit ==
    ingest \in {"stopping", "stopped"} => Ops(calls, "connect") = {}

(***************************************************************************)
(* The events of Spec for a localized client with a finite maximum of      *)
(* epochs, 0 or MaxEpochs.                                                  *)
(***************************************************************************)
InitEpochs ==
    /\ \E ep \in {0, MaxEpochs} : InitConf(TRUE, FALSE, FALSE, ep)
    /\ InitSession(<<>>)
    /\ InitParser(callbacks)
    /\ InitThreads

SpecEpochs == InitEpochs /\ [][Next]_vars

\* C18: with a finite maximum E, a fix with a position adds one to the epoch
\* counter; it recomputes iff the position moved beyond a threshold from the
\* retained one or the counter is above E, and then retains the new position
\* and resets the counter; otherwise the retained position stays.  A fix
\* without a position changes neither.  The counter never ends above E.
C18_EpochCounter ==
    [][ /\ epoch_count' <= epochs
        /\ ev' = "fix" =>
             \A quality \in Qualities, pos \in Positions :
               Fix(quality, pos) =>
                 LET n  == epoch_count + 1
                     re == \/ MovedBeyond(pos[1], lat, dlat_threshold)
                           \/ MovedBeyond(pos[2], lon, dlon_threshold)
                           \/ n > epochs
                 IN  IF quality \in {0, 6}
                     THEN epoch_count' = epoch_count /\ lat' = lat /\ lon' = lon
                     ELSE IF re
                     THEN /\ epoch_count' = 0
                          /\ lat' = pos[1] /\ lon' = pos[2]
                          /\ \/ Ops(calls', "select") # {}
                             \/ CallsOf(calls', "subscribe", tile_topic') # {}
                             \/ ~DictTruthy(tile_dict)
                     ELSE /\ epoch_count' = n
                          /\ lat' = lat /\ lon' = lon
                          /\ Ops(calls', "select") = {}
                          /\ tile_topic' = tile_topic
      ]_vars

\* C18 witness: the maximum is 0, so the counter of this fix was above it: the
\* fix recomputed within the subscribed tile, selected a node and reset the
\* counter.
C18_Witness ==
    /\ localized /\ epochs = 0
    /\ ev = "fix"
    /\ epoch_count = 0
    /\ Ops(calls, "select") # {}

(***************************************************************************)
(* select_node on its own: a localized client holds a dictionary whose     *)
(* node list and the retained position are drawn from bounded sets, and    *)
(* select_node is called, and called again.                                *)
(***************************************************************************)
N_4807 == <<"N", "4", "8", "0", "7", "E", "0", "1", "1", "3", "1">>
N_4900 == <<"N", "4", "9", "0", "0", "E", "0", "1", "1", "0", "0">>
N_4700 == <<"N", "4", "7", "0", "0", "E", "0", "1", "1", "0", "0">>

NodePool == {N_4807, N_us, N_4900, N_4700, N_au, N_4925}

MaxNodes == 3

\* the ordered node lists of one to MaxNodes nodes of the pool
NodeLists == UNION {[1..n -> NodePool] : n \in 1..MaxNodes}

Queries == { <<4800, 1100>>, <<4812, 1152>>, <<4900, 1152>>, <<0, 0>>,
             <<-2655, 13470>> }

InitSelect ==
    /\ InitUnit(FALSE)
    /\ tile_level = 2
    /\ \E q \in Queries : lat = q[1] /\ lon = q[2]
    /\ \E nodes \in NodeLists :
          tile_dict = [kind |-> "dict", nodes |-> nodes,
                       nodeprefix |-> T_pp_ip \o <<"/">>, endpoint |-> "A"]
    /\ tile_topic = <<>>
    /\ msgs = <<>>

\* self.select_node()
Select ==
    /\ Becomes(select_node(Cur))
    /\ ev' = "select"
    /\ UNCHANGED ingest

NextSelect == Select

SpecSelect == InitSelect /\ [][NextSelect]_vars

T_tile == <<"p", "p", "/", "i", "p", "/", "L", "2", "N", "4", "8", "7", "5",
            "E", "0", "1", "1", "2", "5", "/", "d", "i", "c", "t">>

RouteTopics ==
    { PlanPrefix(Plan(FALSE)) \o <<"e", "u">>,
      PlanPrefix(Plan(TRUE)) \o <<"e", "u">>,
      PlanPrefix(Plan(FALSE)) \o <<"e", "u">> \o T_dict_suffix,
      <<"/", "p", "p", "/", "i", "p">>,
      T_mga, T_mga_updates, KeyTopic(Plan(FALSE)),
      T_tile,
      T_pp_ip \o <<"/">> \o N_4807,
      <<"p", "p", "/", "i", "p", "x">>,
      <<"p", "p", "/", "d", "i", "c", "t">>,
      <<"x">> }

\* the payloads on topic t: bytes of two contents; on a tile topic what
\* Payloads gives
RoutePayloads(t) ==
    IF startswith(t, T_pp_ip) /\ endswith(t, T_dict_suffix) THEN Payloads(t)
    ELSE { [kind |-> "bytes", id |-> i] : i \in {1, 2} }

RouteMessages ==
    UNION { { [topic |-> t, payload |-> p] : p \in RoutePayloads(t) }
            : t \in RouteTopics }

MaxMessages == 2

InitRoute ==
    /\ \E lband \in BOOLEAN : InitUnit(lband)
    /\ tile_level = 2
    /\ lat = 0
    /\ lon = 0
    /\ tile_dict = NoDict
    /\ tile_topic = <<>>
    /\ msgs \in UNION {[1..n -> RouteMessages] : n \in 1..MaxMessages}

\* the network loop calls on_message for the next message of the queue
Message ==
    /\ msgs # <<>>
    /\ Becomes(on_mqtt_message([Cur EXCEPT !.msgs = Tail(@)],
                               Head(msgs).topic, Head(msgs).payload))
    /\ ev' = "message"
    /\ UNCHANGED ingest

NextRoute == Message

SpecRoute == InitRoute /\ [][NextRoute]_vars

\* C20: the message at the head of the queue is written to the receiver once,
\* with its payload, iff its topic starts with '/pp/<plan>/' or '/pp/ubx/', or
\* starts with 'pp/ip' and does not end in '/dict'; a topic that starts with
\* 'pp/ip' and ends in '/dict' is not written and its JSON payload becomes the
\* tile dictionary; any other topic is not written and changes nothing.
C20_Routing ==
    [][ Message =>
          LET m      == Head(msgs)
              t      == m.topic
              writes == Ops(calls', "write")
          IN  /\ msgs' = Tail(msgs)
              /\ IF \/ startswith(t, PlanPrefix(plan))
                    \/ startswith(t, T_pp_ubx)
                    \/ startswith(t, T_pp_ip) /\ ~endswith(t, T_dict_suffix)
                 THEN /\ Cardinality(writes) = 1
                      /\ \A k \in writes : calls'[k].qos = m.payload.id
                 ELSE IF startswith(t, T_pp_ip) /\ endswith(t, T_dict_suffix)
                 THEN /\ writes = {}
                      /\ m.payload.kind # "notjson" => tile_dict' = m.payload
                 ELSE /\ calls' = <<>>
                      /\ ctrlvars' = ctrlvars
                      /\ link' = link /\ subs' = subs
      ]_vars

\* C20 witness: the first of two messages was written to the receiver with
\* its payload, the second is still in the queue.
C20_Witness ==
    /\ ev = "message"
    /\ Len(msgs) = 1
    /\ Cardinality(Ops(calls, "write")) = 1
    /\ \A k \in Ops(calls, "write") : calls[k].qos = 2

\* the buffer holds '$' payload '*HH' with HH the exclusive-or of the
\* payload, and a registered pattern matches it
WellFormed(b) ==
    /\ b # NoBuffer
    /\ Len(b) > 3
    /\ b[1] = ord("$")
    /\ b[Len(b) - 2] = ord("*")
    /\ IsHexPair(ChecksumField(b))
    /\ HexPairValue(ChecksumField(b)) = PayloadXor(b)
    /\ \E j \in DOMAIN registered : Match(registered[j], b)

\* C21 as claimed: whatever was fed before, the terminator of a well-formed
\* sentence that a registered pattern matches invokes the callback of every
\* matching pattern once, with the sentence from '$' to the checksum digits,
\* and leaves no buffer.
C21_Resynchronises ==
    [][ (WellFormed(buffer) /\ Feed(<<CR>>)) =>
          /\ buffer' = NoBuffer
          /\ Len(frames') = 1
          /\ frames'[1].data = buffer
          /\ \A j \in DOMAIN registered :
                Match(registered[j], buffer) =>
                    Cardinality({k \in DOMAIN frames'[1].invoked :
                                    frames'[1].invoked[k] = registered[j]}) = 1
      ]_vars

\* C22 as claimed: in localized mode, while the client is connected, the
\* recorded tile topic and the recorded correction topic are subscribed at
\* the transport.
C22_RecordedAreSubscribed ==
    (localized /\ connected /\ link = "up") =>
        /\ tile_topic # <<>> => tile_topic \in subs
        /\ spartn_topic # <<>> => spartn_topic \in subs

\* C23 as claimed: when no handler is running in either thread, the transport
\* holds at most one correction-data subscription, the topic recorded in
\* spartn_topic.
C23_InterleavingHarmless ==
    (pc.ingest = "idle" /\ pc.net = "idle") =>
        /\ Cardinality({t \in subs : IsCorrectionTopic(t)}) <= 1
        /\ \A t \in subs : IsCorrectionTopic(t) => t = spartn_topic

(***************************************************************************)
(* The events of Spec for a localized client whose receiver reports        *)
(* positions at and around latitude 0, longitude 0.                         *)
(***************************************************************************)
\* 0.2 degrees is within dlat_threshold, 0.5 degrees beyond it
NearOrigin == { <<0, 0>>, <<20, 0>>, <<-20, 0>>, <<0, 1>>, <<50, 0>> }

InitOrigin ==
    /\ \E forced \in BOOLEAN, ep \in {-1, 0} : InitConf(TRUE, FALSE, forced, ep)
    /\ InitSession(<<>>)
    /\ InitParser(callbacks)
    /\ InitThreads

NextOrigin ==
    \/ LoopStart
    \/ \E quality \in Qualities, pos \in NearOrigin : Fix(quality, pos)
    \/ \E rc \in ReturnCodes : ConnAck(rc)
    \/ DisconnectComplete
    \/ ConnectionLost
    \/ \E t \in subs : \E payload \in Payloads(t) : Publish(t, payload)
    \/ Deliver

SpecOrigin == InitOrigin /\ [][NextOrigin]_vars

\* C24 as claimed: in localized mode, with no position retained yet, a fix
\* with a position retains it and subscribes the tile topic of its tile.
C24_FirstFixSubscribesTile ==
    [][ (/\ localized /\ tile_topic = <<>>
         /\ lat = 0 /\ lon = 0 /\ dlon_threshold = 0 /\ epoch_count = 0) =>
          \A quality \in Qualities \ {0, 6}, pos \in NearOrigin :
            Fix(quality, pos) =>
              /\ lat' = pos[1] /\ lon' = pos[2]
              /\ tile_topic' = get_tile_topic(tile_level, pos[1], pos[2])
              /\ CallsOf(calls', "subscribe", tile_topic') # {}
      ]_vars

=============================================================================
